---- MODULE Spec2Model ----
\* Index synchronisation of file_guessr: the SQLite record store and the
\* Elasticsearch index behind database.py, the HTTP handlers of main.py that
\* drive them, the scan / watcher tasks that call upsert_file and
\* remove_file concurrently, and the enrichment functions of llm.py.
EXTENDS Integers, Sequences, FiniteSets, TLC

\* ---------------------------------------------------------------- bounds
MaxScans == 2      \* background index_folder tasks that can exist at once
MaxOps   == 3      \* requests and environment events per behaviour
MaxQueue == 1      \* watch events waiting for the watcher thread
MaxReply == 3      \* lexical items in a reply of the model

\* ---------------------------------------------------------------- text
\* Strings are sequences of one-character strings.
Lower(c) ==
  CASE c = "A" -> "a"
    [] c = "D" -> "d"
    [] c = "X" -> "x"
    [] OTHER -> c

LowerStr(s) == [i \in 1..Len(s) |-> Lower(s[i])]

IsSpace(c) == c = " "

\* the characters re.sub keeps in _path_to_id: [a-zA-Z0-9_.\-]
IdSafe(c) == c \in {"a", "b", "d", "x", "A", "D", "X", "_", ".", "-"}

\* \w of the standard tokenizer: letters, digits and the underscore
IsWordChar(c) == c \in {"a", "b", "d", "x", "A", "D", "X", "_"}

IsPrefix(pre, s) == Len(pre) <= Len(s) /\ SubSeq(s, 1, Len(pre)) = pre

Contains(text, term) ==
  \E i \in 0..(Len(text) - Len(term)) : SubSeq(text, i + 1, i + Len(term)) = term

\* python str.split() cuts at whitespace, the standard tokenizer at every
\* character that is not a letter, a digit or an underscore
IsSep(c, mode) == IF mode = "ws" THEN IsSpace(c) ELSE ~IsWordChar(c)

RECURSIVE SplitFrom(_, _, _, _)
SplitFrom(s, i, cur, mode) ==
  IF i > Len(s)
  THEN IF cur = <<>> THEN <<>> ELSE <<cur>>
  ELSE IF IsSep(s[i], mode)
       THEN (IF cur = <<>> THEN <<>> ELSE <<cur>>) \o SplitFrom(s, i + 1, <<>>, mode)
       ELSE SplitFrom(s, i + 1, Append(cur, s[i]), mode)

Split(s) == SplitFrom(s, 1, <<>>, "ws")

\* SQLite LIKE: % matches any run, _ any one character, other characters
\* compare without regard to ASCII case; no ESCAPE clause is given.
RECURSIVE LikeFrom(_, _, _, _)
LikeFrom(pat, i, text, j) ==
  IF i > Len(pat)
  THEN j > Len(text)
  ELSE IF pat[i] = "%"
       THEN \E k \in j..(Len(text) + 1) : LikeFrom(pat, i + 1, text, k)
       ELSE /\ j <= Len(text)
            /\ (pat[i] = "_" \/ Lower(pat[i]) = Lower(text[j]))
            /\ LikeFrom(pat, i + 1, text, j + 1)

Like(text, pat) == LikeFrom(pat, 1, text, 1)

\* ---------------------------------------------------------------- paths
Dir1  == <<"d">>
Dir2  == <<"D">>
File1 == <<"d", "/", "_">>
File2 == <<"d", "/", "%">>
File3 == <<"D", "/", "a">>

Folders   == {Dir1, Dir2}
FilePaths == {File1, File2, File3}
NoFolder  == <<"x">>          \* a path os.path.isdir rejects
NoPath    == <<>>
WildFolder == <<"_">>         \* a folder name that LIKE reads as a wildcard

\* a file lies in a folder when the folder and a separator begin its path
Inside(folder, path) == IsPrefix(folder \o <<"/">>, path)

Basename(path) == SubSeq(path, 3, Len(path))

_path_to_id(file_path) ==
  [i \in 1..Len(file_path) |-> IF IdSafe(file_path[i]) THEN file_path[i] ELSE "_"]

DocIds == {_path_to_id(p) : p \in FilePaths}

\* what the enrichment step hands to upsert_file
Enrichments == { [summary |-> <<"a", "x">>, keywords |-> <<"b">>] }

Queries ==
  { <<>>, <<" ">>, <<"a">>, <<"A">>, <<"_">>, <<"%">>, <<"b", " ", "d">>, <<"x">> }
Limits == {1, 3}

Watcher == 0
Scans   == 1..MaxScans
Threads == {Watcher} \cup Scans

NoDoc == [file_path |-> NoPath, file_name |-> <<>>, summary |-> <<>>,
          keywords |-> <<>>, by |-> -1]

\* ---------------------------------------------------------------- llm.py
\* A reply of the model is a sequence of lexical items: a code fence, the two
\* braces, white space, a word, and whole members of a JSON object
\*   S  "summary": "s"        N  "summary": 5
\*   K  "keywords": ["k"]     Q  "keywords": "k"      X  "note": 1
Fence == "#"            \* three backquotes, with or without the word json
Members == {"S", "N", "K", "Q", "X"}
ReplyChars == {Fence, "{", "}", " ", "w"} \cup Members

RECURSIVE Texts(_)
Texts(n) ==
  IF n = 0 THEN {<<>>}
  ELSE Texts(n - 1) \cup {Append(t, c) : t \in {x \in Texts(n - 1) : Len(x) = n - 1},
                                        c \in ReplyChars}

\* _chat: the content of the reply, or an exception (time-out, HTTP error,
\* connection refused, unreadable image)
Raised  == [ok |-> FALSE, text |-> <<>>]
_chat   == {Raised} \cup {[ok |-> TRUE, text |-> t] : t \in Texts(MaxReply)}

\* JSON values as Python holds them
Str(s)   == [type |-> "str", val |-> s]
Number   == [type |-> "int", val |-> <<>>]
List(l)  == [type |-> "list", val |-> l]
Missing  == [type |-> "missing", val |-> <<>>]

Positions(text, c) == {i \in 1..Len(text) : text[i] = c}
Min(S) == CHOOSE x \in S : \A y \in S : x <= y
Max(S) == CHOOSE x \in S : \A y \in S : x >= y

\* str.strip()
Strip(text) ==
  LET solid == {i \in 1..Len(text) : ~IsSpace(text[i])}
  IN  IF solid = {} THEN <<>> ELSE SubSeq(text, Min(solid), Max(solid))

\* the search for a fenced block: group 1, what lies between the first fence
\* and the next one, less the white space after the first
FenceGroup(text) ==
  LET f  == Positions(text, Fence)
      a  == Min(f)
      b  == Min(f \ {a})
      ws == {i \in (a + 1)..(b - 1) : \A k \in (a + 1)..i : IsSpace(text[k])}
  IN  IF Cardinality(f) < 2 THEN text
      ELSE SubSeq(text, a + 1 + Cardinality(ws), b - 1)

\* the greedy search for a JSON object: from the first { to the last } after it
BraceGroup(text) ==
  LET open  == Positions(text, "{")
      close == {i \in Positions(text, "}") : open # {} /\ i > Min(open)}
  IN  IF close = {} THEN <<>> ELSE SubSeq(text, Min(open), Max(close))

\* json.loads of a brace group: members and white space between the braces
Decodes(group) ==
  /\ Len(group) >= 2
  /\ \A i \in 2..(Len(group) - 1) : group[i] \in Members \/ IsSpace(group[i])

\* the value json.loads gives a key: that of its last member
LastOf(group, kinds) ==
  LET at == {i \in 1..Len(group) : group[i] \in kinds}
  IN  IF at = {} THEN "" ELSE group[Max(at)]

json_loads(group) ==
  [summary  |-> CASE LastOf(group, {"S", "N"}) = "S" -> Str(<<"s">>)
                  [] LastOf(group, {"S", "N"}) = "N" -> Number
                  [] OTHER -> Missing,
   keywords |-> CASE LastOf(group, {"K", "Q"}) = "K" -> List(<<"k">>)
                  [] LastOf(group, {"K", "Q"}) = "Q" -> Str(<<"k">>)
                  [] OTHER -> Missing,
   other    |-> LastOf(group, {"X"}) = "X"]

_parse_json_response(reply) ==
  LET text == FenceGroup(reply)
  IN  IF BraceGroup(text) # <<>> /\ Decodes(BraceGroup(text))
      THEN json_loads(BraceGroup(text))
      ELSE [summary |-> Str(Strip(text)), keywords |-> List(<<>>), other |-> FALSE]

\* the two ifs that add a missing field
Ensure(result) ==
  [result EXCEPT !.summary  = IF @ = Missing THEN Str(<<>>) ELSE @,
                 !.keywords = IF @ = Missing THEN List(<<>>) ELSE @]

\* an except branch that hands back an empty summary
except_result_empty(fn, file_name) ==
  [summary |-> Str(<<>>), keywords |-> List(<<>>), other |-> FALSE]

\* the except branch of each function
except_result(fn, file_name) ==
  [summary  |-> Str(<<IF fn = "extract_keywords" THEN "Error processing file: "
                      ELSE "Image file: ">> \o file_name),
   keywords |-> List(<<>>),
   other    |-> FALSE]

extract_keywords(reply, file_name) ==
  IF reply.ok THEN Ensure(_parse_json_response(reply.text))
  ELSE except_result("extract_keywords", file_name)

describe_image(reply, file_name) ==
  IF reply.ok THEN Ensure(_parse_json_response(reply.text))
  ELSE except_result("describe_image", file_name)

FileNames == {Basename(p) : p \in FilePaths}
NoCall == [fn |-> "none", file_name |-> <<>>, reply |-> Raised,
           result |-> Ensure(json_loads(<<>>))]

VARIABLES
  files,        \* rows of table files, in rowid order
  watched,      \* rows of table watched_folders
  esDocs,       \* documents of index file_guessr, by document id
  esIndex,      \* whether index file_guessr exists
  es,           \* the cached client _es: "None" or "client"
  esUp,         \* whether Elasticsearch answers
  is_indexing,  \* the indexer's status flag
  th,           \* the watcher thread and the index_folder tasks
  wq,           \* watch events not yet handled
  watching,     \* folders the watcher is subscribed to
  fs,           \* files present on disk
  resp,         \* the last HTTP response
  rm,           \* the remove-folder request being served and how far it got
  llm,          \* the last call of an enrichment function: its arguments and result
  ops,          \* requests and events so far
  gone,         \* history: files deleted, with a watch event, under a running scan
  failed        \* history: paths whose row's upsert_file saw es.index raise

vars == <<files, watched, esDocs, esIndex, es, esUp, is_indexing, th, wq,
          watching, fs, resp, rm, llm, ops, gone, failed>>

\* ---------------------------------------------------------------- stores
StorePaths == {files[i].file_path : i \in 1..Len(files)}
EsPaths    == {esDocs[d].file_path : d \in {x \in DocIds : esDocs[x] # NoDoc}}

RowOf(fl, p) == fl[CHOOSE i \in 1..Len(fl) : fl[i].file_path = p]

\* a plain INSERT, without the ON CONFLICT clause
UpsertRow_insert(fl, row) == Append(fl, row)

\* INSERT ... ON CONFLICT(file_path) DO UPDATE: the row keeps its rowid
UpsertRow(fl, row) ==
  IF \E i \in 1..Len(fl) : fl[i].file_path = row.file_path
  THEN [i \in 1..Len(fl) |-> IF fl[i].file_path = row.file_path THEN row ELSE fl[i]]
  ELSE Append(fl, row)

Take(s, n) == SubSeq(s, 1, IF Len(s) < n THEN Len(s) ELSE n)

\* _get_es: a cached client is returned as is; otherwise the server is probed
_get_es(client, up) == IF client = "None" /\ up THEN "client" ELSE client

\* _index_to_es: no client, nothing written; es.index raises when the server
\* does not answer; otherwise the document replaces the one under its id
_index_to_es(docs, client, up, doc) ==
  IF client = "client" /\ up
  THEN [docs EXCEPT ![_path_to_id(doc.file_path)] = doc]
  ELSE docs

\* _delete_from_es: es.delete by document id, every exception ignored
_delete_from_es(docs, client, up, file_path) ==
  IF client = "client" /\ up
  THEN [docs EXCEPT ![_path_to_id(file_path)] = NoDoc]
  ELSE docs

\* the columns a search hands back
Hit(row) == [file_path |-> row.file_path, file_name |-> row.file_name,
             summary |-> row.summary, keywords |-> row.keywords]

LikeTerm(text, term) == Like(text, <<"%">> \o term \o <<"%">>)

RowMatches(row, terms) ==
  \E t \in 1..Len(terms) :
     \/ LikeTerm(row.file_name, terms[t])
     \/ LikeTerm(row.summary, terms[t])
     \/ LikeTerm(row.keywords, terms[t])

RECURSIVE MatchingRows(_, _, _)
MatchingRows(fl, i, terms) ==
  IF i > Len(fl) THEN <<>>
  ELSE (IF RowMatches(fl[i], terms) THEN <<Hit(fl[i])>> ELSE <<>>)
       \o MatchingRows(fl, i + 1, terms)

_search_sqlite_fallback(fl, query, limit) ==
  LET terms == Split(query)
  IN  IF terms = <<>> THEN <<>> ELSE Take(MatchingRows(fl, 1, terms), limit)

\* file_analyzer: standard tokenizer, lowercase; a token holds a letter or digit
Tokens(s) ==
  LET raw == SplitFrom(LowerStr(s), 1, <<>>, "word")
  IN  {raw[i] : i \in {j \in 1..Len(raw) : \E k \in 1..Len(raw[j]) : raw[j][k] # "_"}}

\* multi_match over file_name, keywords and summary with minimum_should_match 1;
\* fuzziness AUTO allows no edit on the one and two character tokens used here
EsMatches(doc, query) ==
  Tokens(query) \cap (Tokens(doc.file_name) \cup Tokens(doc.keywords)
                       \cup Tokens(doc.summary)) # {}

RECURSIVE SetToSeq(_)
SetToSeq(S) ==
  IF S = {} THEN <<>>
  ELSE LET x == CHOOSE y \in S : TRUE IN <<x>> \o SetToSeq(S \ {x})

\* _search_es: [] without a client and on any exception of es.search
_search_es(docs, index, client, up, query, limit) ==
  IF client = "client" /\ up /\ index
  THEN Take(SetToSeq({Hit(docs[d]) : d \in {x \in DocIds :
                         docs[x] # NoDoc /\ EsMatches(docs[x], query)}}), limit)
  ELSE <<>>

\* search: the client decides the branch, whatever the server's state
search(fl, docs, index, client, up, query, limit) ==
  IF _get_es(client, up) # "None"
  THEN _search_es(docs, index, _get_es(client, up), up, query, limit)
  ELSE _search_sqlite_fallback(fl, query, limit)

\* ---------------------------------------------------------------- state
Idle == [st |-> "free", folder |-> NoPath, todo |-> {}, cur |-> NoPath,
         enr |-> [summary |-> <<>>, keywords |-> <<>>],
         ok |-> FALSE, conc |-> {}]

Response(op, code, body) == [op |-> op, code |-> code, body |-> body]

\* no remove-folder request is being served
NoRemove == [st |-> "idle", folder |-> NoPath]

MainInit ==
  /\ files = <<>>
  /\ watched = {}
  /\ esDocs = [d \in DocIds |-> NoDoc]
  /\ esUp \in BOOLEAN
  /\ es = _get_es("None", esUp)          \* init_db calls _ensure_index
  /\ esIndex = esUp
  /\ is_indexing = FALSE
  /\ th = [t \in Threads |-> Idle]
  /\ wq = <<>>
  /\ watching = {}
  /\ fs = FilePaths
  /\ resp = Response("none", 0, <<>>)
  /\ rm = NoRemove
  /\ ops = 0
  /\ gone = {}
  /\ failed = {}

Init == MainInit /\ llm = NoCall

\* ---------------------------------------------------------------- main.py
\* POST /api/index
start_indexing(folder_path) ==
  /\ rm = NoRemove
  /\ ops < MaxOps
  /\ ops' = ops + 1
  /\ IF folder_path = NoPath \/ folder_path \notin Folders
     THEN /\ resp' = Response("index", 400, <<>>)
          /\ UNCHANGED th
     ELSE IF is_indexing
     THEN /\ resp' = Response("index", 409, <<>>)
          /\ UNCHANGED th
     ELSE /\ \E s \in Scans :
               /\ th[s].st = "free"
               /\ \A r \in Scans : r < s => th[r].st # "free"
               /\ th' = [th EXCEPT ![s] = [Idle EXCEPT !.st = "pending",
                                                       !.folder = folder_path]]
          /\ resp' = Response("index", 200, <<>>)
  /\ UNCHANGED <<llm, rm, files, watched, esDocs, esIndex, es, esUp, is_indexing, wq,
                 watching, fs, gone, failed>>

\* database.clear_db
clear_db_files == <<>>

clear_db_docs(docs, client, up, index) ==
  IF client = "client" /\ up /\ index THEN [d \in DocIds |-> NoDoc] ELSE docs

\* POST /api/clear
clear_index ==
  /\ rm = NoRemove
  /\ ops < MaxOps
  /\ ops' = ops + 1
  /\ IF is_indexing
     THEN /\ resp' = Response("clear", 409, <<>>)
          /\ UNCHANGED <<files, watched, esDocs, es, failed>>
     ELSE /\ files' = clear_db_files
          /\ watched' = {}
          /\ es' = _get_es(es, esUp)
          /\ esDocs' = clear_db_docs(esDocs, es', esUp, esIndex)
          /\ resp' = Response("clear", 200, <<>>)
          /\ failed' = {}
  /\ UNCHANGED <<llm, rm, esIndex, esUp, is_indexing, th, wq, watching, fs, gone>>

\* database.remove_watched_folder: DELETE ... WHERE file_path LIKE folder || '%'
RECURSIVE RowsNotLike(_, _, _)
RowsNotLike(fl, i, pat) ==
  IF i > Len(fl) THEN <<>>
  ELSE (IF Like(fl[i].file_path, pat) THEN <<>> ELSE <<fl[i]>>)
       \o RowsNotLike(fl, i + 1, pat)

remove_watched_folder_files(fl, folder_path) ==
  RowsNotLike(fl, 1, folder_path \o <<"%">>)

\* delete_by_query with a prefix query on the keyword field file_path
remove_watched_folder_docs(docs, client, up, index, folder_path) ==
  IF client = "client" /\ up /\ index
  THEN [d \in DocIds |-> IF IsPrefix(folder_path, docs[d].file_path) /\ docs[d] # NoDoc
                          THEN NoDoc ELSE docs[d]]
  ELSE docs

\* POST /api/folders/remove: the request arrives; database.remove_watched_folder
\* runs its two DELETE statements and commits
remove_folder(folder_path) ==
  /\ rm = NoRemove
  /\ ops < MaxOps
  /\ ops' = ops + 1
  /\ IF folder_path = NoPath
     THEN /\ resp' = Response("remove", 400, <<>>)
          /\ UNCHANGED <<files, watched, rm, failed>>
     ELSE /\ watched' = watched \ {folder_path}
          /\ files' = remove_watched_folder_files(files, folder_path)
          /\ rm' = [st |-> "sqlite", folder |-> folder_path]
          /\ failed' = failed \cap StorePaths'
          /\ UNCHANGED resp
  /\ UNCHANGED <<llm, esDocs, es, watching, esIndex, esUp, is_indexing, th, wq, fs, gone>>

\* database.remove_watched_folder goes on: delete_by_query inside try / except,
\* then the function returns
remove_watched_folder_es ==
  /\ rm.st = "sqlite"
  /\ es' = _get_es(es, esUp)
  /\ esDocs' = remove_watched_folder_docs(esDocs, es', esUp, esIndex, rm.folder)
  /\ rm' = [rm EXCEPT !.st = "returned"]
  /\ UNCHANGED <<llm, files, watched, esIndex, esUp, is_indexing, th, wq, watching, fs,
                 resp, ops, gone, failed>>

\* the handler goes on: watcher.remove_watch inside try / except, then the response
remove_watch ==
  /\ rm.st = "returned"
  /\ watching' = watching \ {rm.folder}
  /\ resp' = Response("remove", 200, <<>>)
  /\ rm' = NoRemove
  /\ UNCHANGED <<llm, files, watched, esDocs, esIndex, es, esUp, is_indexing, th, wq, fs,
                 ops, gone, failed>>

\* database.search, as called by the search routes
search_request(query, limit) ==
  /\ rm = NoRemove
  /\ ops < MaxOps
  /\ ops' = ops + 1
  /\ es' = _get_es(es, esUp)
  /\ resp' = Response("search", 200, search(files, esDocs, esIndex, es, esUp, query, limit))
  /\ UNCHANGED <<llm, rm, files, watched, esDocs, esIndex, esUp, is_indexing, th, wq,
                 watching, fs, gone, failed>>

\* ---------------------------------------------------------------- tasks
\* index_folder begins: the background task of an accepted request is run
\* after its response, sets the status flag and walks the folder
index_folder_begin(s) ==
  /\ th[s].st = "pending"
  /\ is_indexing' = TRUE
  /\ th' = [th EXCEPT ![s].st = "walk",
                       ![s].todo = {p \in fs : Inside(th[s].folder, p)}]
  /\ UNCHANGED <<llm, rm, files, watched, esDocs, esIndex, es, esUp, wq, watching, fs,
                 resp, ops, gone, failed>>

\* one file of the walk goes through the content pipeline: a file that is
\* gone is skipped, a readable one is read and enriched
index_folder_process(s) ==
  /\ th[s].st = "walk"
  /\ \E p \in th[s].todo :
       IF p \in fs
       THEN \E e \in Enrichments :
              th' = [th EXCEPT ![s].st = "read", ![s].cur = p, ![s].enr = e,
                               ![s].ok = FALSE, ![s].conc = {}]
       ELSE th' = [th EXCEPT ![s].todo = @ \ {p}]
  /\ UNCHANGED <<llm, rm, files, watched, esDocs, esIndex, es, esUp, is_indexing, wq,
                 watching, fs, resp, ops, gone, failed>>

\* index_folder ends: the folder is persisted and watched, the flag reset
index_folder_end(s) ==
  /\ th[s].st = "walk"
  /\ th[s].todo = {}
  /\ is_indexing' = FALSE
  /\ watched' = watched \cup {th[s].folder}       \* database.add_watched_folder
  /\ watching' = watching \cup {th[s].folder}
  /\ th' = [th EXCEPT ![s] = Idle]
  /\ UNCHANGED <<llm, rm, files, esDocs, esIndex, es, esUp, wq, fs, resp, ops, gone, failed>>

\* upsert_file, first half: the INSERT ... ON CONFLICT and its commit
\* the document _index_to_es builds from the arguments of the call
DocFor(t) == [file_path |-> th[t].cur, file_name |-> Basename(th[t].cur),
              summary |-> th[t].enr.summary, keywords |-> th[t].enr.keywords,
              by |-> t]

\* the row of the call: the same fields and indexed_at = time.time(), the
\* clock read as the number of requests and events so far
RowFor(t) == [file_path |-> th[t].cur, file_name |-> Basename(th[t].cur),
              summary |-> th[t].enr.summary, keywords |-> th[t].enr.keywords,
              by |-> t, indexed_at |-> ops]

MidCall(p) == {u \in Threads : th[u].st = "db" /\ th[u].cur = p}

upsert_file_db(t) ==
  /\ th[t].st = "read"
  /\ files' = UpsertRow(files, RowFor(t))
  /\ failed' = failed \ {th[t].cur}
  /\ th' = [u \in Threads |->
              IF u = t THEN [th[t] EXCEPT !.st = "db", !.conc = MidCall(th[t].cur)]
              ELSE IF u \in MidCall(th[t].cur) THEN [th[u] EXCEPT !.conc = @ \cup {t}]
              ELSE th[u]]
  /\ UNCHANGED <<llm, rm, watched, esDocs, esIndex, es, esUp, is_indexing, wq, watching,
                 fs, resp, ops, gone>>

\* the task after upsert_file returns; of the call it keeps what a later
\* comparison with an overlapping call needs
Returned(t, written) ==
  [th[t] EXCEPT !.st = IF t = Watcher THEN "free" ELSE "walk",
                !.todo = @ \ {th[t].cur},
                !.enr = Idle.enr,
                !.cur = IF th[t].conc = {} THEN NoPath ELSE @,
                !.ok = th[t].conc # {} /\ written]

\* upsert_file, second half: _index_to_es inside try / except, then return
upsert_file_es(t) ==
  /\ th[t].st = "db"
  /\ es' = _get_es(es, esUp)
  /\ esDocs' = _index_to_es(esDocs, es', esUp, DocFor(t))
  /\ esIndex' = (esIndex \/ (es' = "client" /\ esUp))
  /\ th' = [th EXCEPT ![t] = Returned(t, es' = "client" /\ esUp)]
  /\ failed' = IF es' = "client" /\ ~esUp /\ th[t].cur \in StorePaths
               THEN failed \cup {th[t].cur} ELSE failed
  /\ UNCHANGED <<llm, rm, files, watched, esUp, is_indexing, wq, watching, fs, resp, ops, gone>>

\* ---------------------------------------------------------------- watcher
Scanning(s) == th[s].st \in {"walk", "read", "db"}

Watched(p) == \E f \in watching : Inside(f, p)

\* a file on disk is written to
file_modified(p) ==
  /\ ops < MaxOps
  /\ ops' = ops + 1
  /\ p \in fs
  /\ Watched(p)
  /\ Len(wq) < MaxQueue
  /\ wq' = Append(wq, [kind |-> "modified", path |-> p])
  /\ UNCHANGED <<llm, rm, files, watched, esDocs, esIndex, es, esUp, is_indexing, th,
                 watching, fs, resp, gone, failed>>

\* a file on disk is deleted
file_deleted(p) ==
  /\ ops < MaxOps
  /\ ops' = ops + 1
  /\ p \in fs
  /\ fs' = fs \ {p}
  /\ gone' = IF Watched(p) /\ (\E s \in Scans : Scanning(s) /\ Inside(th[s].folder, p))
             THEN gone \cup {p} ELSE gone
  /\ IF Watched(p)
     THEN /\ Len(wq) < MaxQueue
          /\ wq' = Append(wq, [kind |-> "deleted", path |-> p])
     ELSE UNCHANGED wq
  /\ UNCHANGED <<llm, rm, files, watched, esDocs, esIndex, es, esUp, is_indexing, th,
                 watching, resp, failed>>

\* a created / modified event: dropped while a scan runs or when the file is
\* gone, otherwise the file goes through the content pipeline
on_modified ==
  /\ th[Watcher].st = "free"
  /\ wq # <<>>
  /\ Head(wq).kind = "modified"
  /\ wq' = Tail(wq)
  /\ IF is_indexing \/ Head(wq).path \notin fs
     THEN UNCHANGED th
     ELSE \E e \in Enrichments :
            th' = [th EXCEPT ![Watcher].st = "read", ![Watcher].cur = Head(wq).path,
                             ![Watcher].enr = e, ![Watcher].ok = FALSE,
                             ![Watcher].conc = {}]
  /\ UNCHANGED <<llm, rm, files, watched, esDocs, esIndex, es, esUp, is_indexing,
                 watching, fs, resp, ops, gone, failed>>

\* database.remove_file: DELETE ... WHERE file_path = ?
RECURSIVE RowsNotAt(_, _, _)
RowsNotAt(fl, i, p) ==
  IF i > Len(fl) THEN <<>>
  ELSE (IF fl[i].file_path = p THEN <<>> ELSE <<fl[i]>>) \o RowsNotAt(fl, i + 1, p)

remove_file_files(fl, file_path) == RowsNotAt(fl, 1, file_path)

\* a deleted event: remove_file at once
on_deleted ==
  /\ th[Watcher].st = "free"
  /\ wq # <<>>
  /\ Head(wq).kind = "deleted"
  /\ wq' = Tail(wq)
  /\ files' = remove_file_files(files, Head(wq).path)
  /\ es' = _get_es(es, esUp)
  /\ esDocs' = _delete_from_es(esDocs, es', esUp, Head(wq).path)
  /\ th' = [th EXCEPT ![Watcher] = Idle]
  /\ failed' = failed \ {Head(wq).path}
  /\ UNCHANGED <<llm, rm, watched, esIndex, esUp, is_indexing, watching, fs, resp, ops, gone>>

\* ---------------------------------------------------------------- engine
\* Elasticsearch stops or starts answering
es_flips ==
  /\ ops < MaxOps
  /\ ops' = ops + 1
  /\ esUp' = ~esUp
  /\ UNCHANGED <<llm, rm, files, watched, esDocs, esIndex, es, is_indexing, th, wq,
                 watching, fs, resp, gone, failed>>

Next ==
  \/ \E f \in Folders \cup {NoPath, NoFolder} : start_indexing(f)
  \/ clear_index
  \/ \E f \in Folders \cup {NoPath, WildFolder} : remove_folder(f)
  \/ remove_watched_folder_es
  \/ remove_watch
  \/ \E q \in Queries, l \in Limits : search_request(q, l)
  \/ \E s \in Scans : index_folder_begin(s)
  \/ \E s \in Scans : index_folder_process(s)
  \/ \E s \in Scans : index_folder_end(s)
  \/ \E t \in Threads : upsert_file_db(t)
  \/ \E t \in Threads : upsert_file_es(t)
  \/ \E p \in FilePaths : file_modified(p)
  \/ \E p \in FilePaths : file_deleted(p)
  \/ on_modified
  \/ on_deleted
  \/ es_flips

Spec == Init /\ [][Next]_vars

TypeOK ==
  /\ StorePaths \subseteq FilePaths
  /\ Len(files) = Cardinality(StorePaths)
  /\ watched \subseteq Folders
  /\ es \in {"None", "client"}
  /\ ops \in 0..MaxOps
  /\ Len(wq) <= MaxQueue

\* the scheduler runs every task and the watcher thread to their end; nothing
\* obliges a client to send a request or the disk to change
TaskStep ==
  \/ \E s \in Scans : index_folder_begin(s)
  \/ \E s \in Scans : index_folder_process(s)
  \/ \E s \in Scans : index_folder_end(s)
  \/ \E t \in Threads : upsert_file_db(t)
  \/ \E t \in Threads : upsert_file_es(t)
  \/ on_modified
  \/ on_deleted
  \/ remove_watched_folder_es
  \/ remove_watch

FairSpec == Init /\ [][Next]_vars /\ WF_vars(TaskStep)

\* ---------------------------------------------------------------- enrichment
MainVars == <<files, watched, esDocs, esIndex, es, esUp, is_indexing, th, wq,
              watching, fs, resp, rm, ops, gone, failed>>

\* extract_keywords is applied to the reply drawn for the call
call_extract_keywords ==
  /\ llm.fn = "none"
  /\ llm' = [llm EXCEPT !.fn = "extract_keywords",
                        !.result = extract_keywords(llm.reply, llm.file_name)]
  /\ UNCHANGED MainVars

\* describe_image is applied to the reply drawn for the call
call_describe_image ==
  /\ llm.fn = "none"
  /\ llm' = [llm EXCEPT !.fn = "describe_image",
                        !.result = describe_image(llm.reply, llm.file_name)]
  /\ UNCHANGED MainVars

LlmNext ==
  \/ call_extract_keywords
  \/ call_describe_image

\* one call of an enrichment function, on any reply and any file name
LlmInit ==
  /\ MainInit
  /\ llm \in {[NoCall EXCEPT !.reply = r, !.file_name = n] : r \in _chat, n \in FileNames}

LlmSpec == LlmInit /\ [][LlmNext]_vars

\* ---------------------------------------------------------------- repeated upserts
\* Both folders have been scanned and the index cleared: the watcher is
\* subscribed to them and the stores are empty. From there only files change
\* on disk, and the watcher thread calls upsert_file for each event.
UpsertInit ==
  /\ files = <<>>
  /\ watched = {}
  /\ esDocs = [d \in DocIds |-> NoDoc]
  /\ esUp \in BOOLEAN
  /\ es = _get_es("None", esUp)
  /\ esIndex = esUp
  /\ is_indexing = FALSE
  /\ th = [t \in Threads |-> Idle]
  /\ wq = <<>>
  /\ watching = Folders
  /\ fs = FilePaths
  /\ resp = Response("clear", 200, <<>>)
  /\ rm = NoRemove
  /\ llm = NoCall
  /\ ops = 0
  /\ gone = {}
  /\ failed = {}

UpsertNext ==
  \/ \E p \in FilePaths : file_modified(p)
  \/ on_modified
  \/ \E t \in Threads : upsert_file_db(t)
  \/ \E t \in Threads : upsert_file_es(t)
  \/ es_flips

UpsertSpec == UpsertInit /\ [][UpsertNext]_vars

\* ---------------------------------------------------------------- claims
Accepted == {s \in Scans : th[s].st # "free"}
Quiet    == Accepted = {} /\ th[Watcher].st = "free" /\ wq = <<>> /\ rm = NoRemove

\* C1: of the start-scan requests issued while no scan runs exactly one is
\* accepted, and at no time are two bulk scans in flight.
C1_SingleFlight ==
  /\ Cardinality(Accepted) <= 1
  /\ Cardinality({s \in Scans : Scanning(s)}) <= 1

\* C2: once the scan and the handling of the delete event have both finished,
\* a file deleted during the scan has no row and no document.
C2_DeletedFileLeavesNothing ==
  Quiet => \A p \in gone : p \notin StorePaths /\ p \notin EsPaths

\* C3: when remove_watched_folder(f) returns, f is not watched and neither
\* store holds a path that f begins.
C3_RemoveFolderCascades ==
  [][\A f \in Folders :
       (remove_watched_folder_es /\ rm.folder = f) =>
         /\ f \notin watched'
         /\ \A p \in StorePaths' : ~IsPrefix(f, p)
         /\ \A p \in EsPaths' : ~IsPrefix(f, p)]_vars

\* a term of the query is a case-insensitive substring of name, summary or keywords
HasTerm(hit, query) ==
  \E t \in 1..Len(Split(query)) :
     LET term == LowerStr(Split(query)[t])
     IN  \/ Contains(LowerStr(hit.file_name), term)
         \/ Contains(LowerStr(hit.summary), term)
         \/ Contains(LowerStr(hit.keywords), term)

\* C4: without the engine, search returns at most limit records, each holding
\* a term of the query as a case-insensitive substring of its name, summary
\* or keywords, and nothing for a query without terms.
C4_FallbackSubstring ==
  [][\A q \in Queries, l \in Limits :
       (search_request(q, l) /\ es = "None" /\ ~esUp) =>
         /\ Len(resp'.body) <= l
         /\ \A i \in 1..Len(resp'.body) : HasTerm(resp'.body[i], q)
         /\ (Split(q) = <<>> => resp'.body = <<>>)]_vars

\* C5: a search made while the engine does not answer returns the result of
\* the substring scan of the record store.
C5_UnreachableFallsBack ==
  [][\A q \in Queries, l \in Limits :
       (search_request(q, l) /\ ~esUp) =>
         resp'.body = _search_sqlite_fallback(files, q, l)]_vars

\* C6: a record whose index write failed inside upsert_file is in the record
\* store and is returned by a later search for a term of its name.
C6_FailedWriteStillFound ==
  [][\A q \in Queries, l \in Limits :
       search_request(q, l) =>
         \A p \in failed \cap StorePaths :
            (Split(q) # <<>> /\ Contains(Basename(p), Split(q)[1]) /\ l >= Len(files))
              => \E i \in 1..Len(resp'.body) : resp'.body[i].file_path = p]_vars

\* C7: once the calls have stopped and the engine answers, the index comes
\* to hold the paths of the record store.
C7_EventuallySameSet ==
  <>[](Quiet /\ esUp) => <>[](EsPaths = StorePaths)

\* C8: two upsert_file calls for one path that ran concurrently and have both
\* returned leave one row, and the row and the document carry the values of
\* the same call.
Finished(t, p) == th[t].st \in {"free", "walk"} /\ th[t].cur = p /\ th[t].ok

C8_LastWriterInBothStores ==
  \A p \in FilePaths : \A t, u \in Threads :
     ( /\ t # u
       /\ Finished(t, p) /\ Finished(u, p)
       /\ u \in th[t].conc
       /\ p \in StorePaths
       /\ RowOf(files, p).by \in {t, u}
       /\ esDocs[_path_to_id(p)].file_path = p
       /\ esDocs[_path_to_id(p)].by \in {t, u} )
     => /\ Cardinality({i \in 1..Len(files) : files[i].file_path = p}) = 1
        /\ RowOf(files, p).by = esDocs[_path_to_id(p)].by

\* C9: distinct paths have distinct document ids: upsert_file and remove_file
\* for one path leave the document of every other path as it was.
OthersKept(p) ==
  \A d \in DocIds :
     (esDocs[d] # NoDoc /\ esDocs[d].file_path # p) => esDocs'[d] = esDocs[d]

C9_IdsDoNotCollide ==
  [][/\ \A t \in Threads : upsert_file_es(t) => OthersKept(th[t].cur)
     /\ on_deleted => OthersKept(Head(wq).path)]_vars

\* C10: a clear request between the acceptance of a start-scan request and
\* the end of its scan is answered 409 and changes neither table nor the index.
C10_ClearRejectedDuringScan ==
  [][(clear_index /\ Accepted # {}) =>
       /\ resp'.code = 409
       /\ files' = files
       /\ watched' = watched
       /\ esDocs' = esDocs]_vars

\* C11: when remove_file(p) returns neither store holds an entry for p, and
\* where p had no row, or no document, the call leaves that store as it was.
C11_RemoveFileRemovesBoth ==
  [][on_deleted =>
       LET p == Head(wq).path
       IN  /\ p \notin StorePaths'
           /\ p \notin EsPaths'
           /\ (p \notin StorePaths => files' = files)
           /\ (p \notin EsPaths => esDocs' = esDocs)]_vars

\* C12: when clear_db returns with the engine answering, both tables are
\* empty and the index exists and holds no document.
C12_ClearLeavesEmptyIndex ==
  [][(clear_index /\ ~is_indexing /\ esUp) =>
       /\ files' = <<>>
       /\ watched' = {}
       /\ esIndex'
       /\ EsPaths' = {}]_vars

\* the fields of a row other than indexed_at
Fields(row) == [file_path |-> row.file_path, file_name |-> row.file_name,
                summary |-> row.summary, keywords |-> row.keywords, by |-> row.by]

C14_FailedProbeIsFinal == [][es = "None" => es' = "None"]_vars

\* C15: the subscription of the folder is cancelled before remove-folder
\* deletes any record of it, and once the deletion has run no watch event of
\* the folder is taken.
C15_UnwatchBeforeCascade ==
  [][/\ \A f \in Folders : remove_folder(f) => f \notin watching
     /\ (rm # NoRemove /\ Len(wq') > Len(wq)) => ~Inside(rm.folder, wq'[Len(wq')].path)]_vars

\* C16: the step of remove_watched_folder that deletes rows of the folder
\* leaves no document of a deleted row in the index.
C16_DocsGoFirst ==
  [][\A f \in Folders :
       remove_folder(f) => \A p \in StorePaths \ StorePaths' : p \notin EsPaths']_vars

\* C19: remove_watched_folder(f) leaves every row and every document whose
\* path is not inside f as it was.
C19_RemoveFolderFrame ==
  [][\A f \in Folders \cup {WildFolder} :
       /\ remove_folder(f) =>
             \A i \in 1..Len(files) :
               ~Inside(f, files[i].file_path) =>
                 \E j \in 1..Len(files') : files'[j] = files[i]
       /\ (remove_watched_folder_es /\ rm.folder = f) =>
             \A d \in DocIds :
               (esDocs[d] # NoDoc /\ ~Inside(f, esDocs[d].file_path)) =>
                 esDocs'[d] = esDocs[d]]_vars

\* the call made of the enrichment function failed / was answered
CallFailed   == llm.fn # "none" /\ ~llm.reply.ok
CallAnswered == llm.fn # "none" /\ llm.reply.ok

\* C17: when the enrichment call times out or fails, the function hands back
\* the empty string as summary and the empty list as keywords.
C17_FailureGivesEmpty ==
  CallFailed => (llm.result.summary = Str(<<>>) /\ llm.result.keywords = List(<<>>))

\* C17, amended: when the enrichment call times out or fails, the function
\* hands back a result of its own, with the empty list as keywords and as
\* summary a fixed phrase followed by the name of the file.
C17_FailureGivesPlaceholder ==
  CallFailed =>
    /\ llm.result.keywords = List(<<>>)
    /\ ~llm.result.other
    /\ llm.result.summary.type = "str"
    /\ llm.result.summary.val # <<>>
    /\ Head(llm.result.summary.val) =
         (IF llm.fn = "extract_keywords" THEN "Error processing file: " ELSE "Image file: ")
    /\ Tail(llm.result.summary.val) = llm.file_name

\* both functions have been called on a failing enrichment call
C17_FailedCall == CallFailed /\ llm.fn = "describe_image" /\ llm.file_name # <<>>

\* the whole reply is one JSON object
IsJsonObject(text) ==
  /\ Strip(text) # <<>>
  /\ Head(Strip(text)) = "{"
  /\ Strip(text)[Len(Strip(text))] = "}"
  /\ Decodes(Strip(text))

\* C18: whatever the reply, the result is a string summary and a list of
\* strings as keywords and nothing else; for a reply that is not a JSON object
\* the summary is the reply as received, white space at its ends aside, and
\* the keywords are the empty list.
C18_FixedShape ==
  CallAnswered =>
    /\ llm.result.summary.type = "str"
    /\ llm.result.keywords.type = "list"
    /\ ~llm.result.other
    /\ ~IsJsonObject(llm.reply.text) =>
          /\ llm.result.summary = Str(Strip(llm.reply.text))
          /\ llm.result.keywords = List(<<>>)

====
